---------------------------- MODULE Spec2Model ----------------------------
(***************************************************************************)
(* Model of scorecard.py: the scoring / flag / penalty / boost /           *)
(* normalisation / recommendation pipeline of analyze_stock, the batch     *)
(* loop analyze_portfolio and the pure function get_recommendation.        *)
(*                                                                         *)
(* Values.  A provider field is absent (None), a number Num(n) or a text   *)
(* Str(s); a key that is present with the Python value None is Null.       *)
(* Floats are modelled as exact fixed-point integers:                      *)
(*   dividendYield, payoutRatio, trailingAnnualDividendYield : 1e-5        *)
(*   yield_pct, payout_pct (percent, 2 decimals)             : 0.01        *)
(*   returnOnAssets, returnOnEquity                          : 0.001       *)
(*   beta, forwardPE, trailingPE, priceToBook                : 0.1         *)
(*   epsCurrentYear, epsForward, dividendRate, trailing rate : 0.01        *)
(*   totalDebt, totalCash, ebitda, debtToEquity, overallRisk : 1           *)
(* pegy is kept as an exact fraction n/d with d > 0.                       *)
(***************************************************************************)
EXTENDS Integers, Sequences, FiniteSets, TLC

None == <<>>
Null == <<"null", "">>
Num(n) == <<n>>
Str(s) == <<"str", s>>
IsNum(x) == Len(x) = 1
IsStr(x) == Len(x) = 2 /\ x[1] = "str"
Val(x) == x[1]
Text(x) == x[2]

\* d.get(key, default): the default replaces an absent key only
SafeGet(x, default) == IF x = None THEN default ELSE x

\* Python truthiness of an optional number: None and 0 are falsy
Truthy(x) == IsNum(x) /\ Val(x) # 0

Min(a, b) == IF a <= b THEN a ELSE b
Max(a, b) == IF a >= b THEN a ELSE b

\* round(num / den) for den > 0, ties to the even integer (Python 3 round)
RoundHalfEven(num, den) ==
    LET q == num \div den
        r == num % den
    IN  IF 2 * r < den THEN q
        ELSE IF 2 * r > den THEN q + 1
        ELSE IF q % 2 = 0 THEN q ELSE q + 1

(***************************************************************************)
(* Configuration (scaled to the units above)                               *)
(***************************************************************************)
ONE == 100000
HIGH_YIELD_DIVIDEND_PENALTY_POINTS == 1
FINANCIAL_OVERALLRISK_SAFETY_THRESHOLDS == << <<7, 1>> >>
\* sorted by threshold, descending; an absent action key is None
EXTREME_PAYOUT_THRESHOLDS ==
    << [threshold |-> 15000, dividend_to |-> Num(0), dividend_cap |-> None,
        safety_minus |-> Num(1)],
       [threshold |-> 10000, dividend_to |-> None, dividend_cap |-> Num(1),
        safety_minus |-> None] >>
COMPOUNDER_QUALITY_BOOST_POINTS == 1
COMPOUNDER_QUALITY_CRITERIA ==
    [roa_min |-> 65, beta_max |-> 9, payout_min |-> 3000,
     payout_max |-> 7000, safety_min |-> 3]
SPECIAL_DIVIDEND_THRESHOLD_PCT == 2000
SPECIAL_DIVIDEND_PENALTY == [max_dividend_score |-> 2]
\* declaration order of the dict
RECOMMENDATION_THRESHOLDS ==
    << [action |-> "ACHETER",   score_min |-> 16, score_max |-> 20],
       [action |-> "RENFORCER", score_min |-> 14, score_max |-> 15],
       [action |-> "CONSERVER", score_min |-> 12, score_max |-> 13],
       [action |-> "ALLEGER",   score_min |-> 9,  score_max |-> 11],
       [action |-> "VENDRE",    score_min |-> 0,  score_max |-> 8] >>
PAYOUT_UNSUSTAINABLE_MIN == 9500
HIGH_YIELD_ALERT_MIN == 800
\* pegy thresholds as fractions n/d
EXTREME_PEG_LOW_MAX == [n |-> 1, d |-> 5]
EXTREME_PEG_HIGH_MIN == [n |-> 3, d |-> 1]
\* 1.25 = 5/4
SPECIAL_DIV_MULTIPLIER == [n |-> 5, d |-> 4]
MISSING_DATA_MIN_FIELDS == 3
QUALITY_ROA_THRESHOLDS == <<20, 50>>
QUALITY_ROE_THRESHOLDS == <<80, 120, 150>>
SAFETY_BETA_THRESHOLDS == <<7, 12>>
SAFETY_DEBT_RATIO_THRESHOLD == 2
PEGY_THRESHOLDS == << [n |-> 1, d |-> 2], [n |-> 1, d |-> 1] >>
PE_FWD_THRESHOLD == 150
DIVIDEND_YIELD_THRESHOLDS == <<2000, 4000, 6000>>
DIVIDEND_PAYOUT_MAX == 80000

\* exact comparison of fractions with positive denominators
FracLeq(a, b) == a.n * b.d <= b.n * a.d

(***************************************************************************)
(* Helpers                                                                 *)
(***************************************************************************)
\* variant: exactly 1.0 is divided as well
normalize_yield_fraction_inclusive(y) ==
    IF y = None THEN None
    ELSE IF Val(y) >= ONE THEN Num(Val(y) \div 100)
    ELSE y

\* y / 100.0 when y > 1.0 (inputs above 1.0 are multiples of 0.001)
normalize_yield_fraction(y) ==
    IF y = None THEN None
    ELSE IF Val(y) > ONE THEN Num(Val(y) \div 100)
    ELSE y

normalize_payout_ratio(p) ==
    IF p = None THEN None
    ELSE IF Val(p) >= 0 THEN p
    ELSE None

detect_special_dividend(yield_pct) ==
    IF yield_pct = None THEN FALSE
    ELSE Val(yield_pct) > SPECIAL_DIVIDEND_THRESHOLD_PCT

\* variant: the percentage is suppressed for None only
PctRounded_is_not_none(x) ==
    IF x # None THEN Num(RoundHalfEven(Val(x), 10)) ELSE None

\* round(x * 100, 2) if x else None, for a normalised fraction x
PctRounded(x) ==
    IF Truthy(x) THEN Num(RoundHalfEven(Val(x), 10)) ELSE None


(***************************************************************************)
(* Profile detection                                                       *)
(***************************************************************************)
\* str.lower() on the texts the model draws from
Lower(s) ==
    CASE s = "Technology" -> "technology"
      [] s = "Software" -> "software"
      [] s = "Financial Services" -> "financial services"
      [] s = "Banks - Regional" -> "banks - regional"
      [] OTHER -> s

\* kw in s, for the lower-cased texts the model draws from
Contains(kw, s) ==
    \/ kw = "financial" /\ s = "financial services"
    \/ kw = "bank" /\ s = "banks - regional"

financial_keywords ==
    <<"financial", "bank", "insurance", "capital markets",
      "asset management", "credit services">>

\* .lower() on a None value raises AttributeError
IsFinancialFirmRaises(info) ==
    ~IsStr(SafeGet(info.sector, Str(""))) \/ ~IsStr(SafeGet(info.industry, Str("")))

is_financial_firm(info) ==
    LET sector == Lower(Text(SafeGet(info.sector, Str(""))))
        industry == Lower(Text(SafeGet(info.industry, Str(""))))
    IN  \E i \in 1..Len(financial_keywords) :
            Contains(financial_keywords[i], sector)
              \/ Contains(financial_keywords[i], industry)

(***************************************************************************)
(* Scoring, Standard profile                                               *)
(***************************************************************************)
score_quality_standard(info) ==
    LET roa == info.returnOnAssets
    IN  IF roa = None THEN 1
        ELSE IF Val(roa) >= QUALITY_ROA_THRESHOLDS[2] THEN 2
        ELSE IF Val(roa) >= QUALITY_ROA_THRESHOLDS[1] THEN 1
        ELSE 0

\* beta term shared by both Safety scorers
BetaTerm(beta) ==
    IF beta # None
    THEN IF Val(beta) < SAFETY_BETA_THRESHOLDS[1] THEN 2
         ELSE IF Val(beta) < SAFETY_BETA_THRESHOLDS[2] THEN 1
         ELSE 0
    ELSE 1

\* debt_ratio = total_debt / ebitda compared exactly, ebitda > 0
DebtTerm(total_debt, ebitda) ==
    IF total_debt # None /\ ebitda # None /\ Val(ebitda) > 0
    THEN IF Val(total_debt) < SAFETY_DEBT_RATIO_THRESHOLD * Val(ebitda) THEN 3
         ELSE IF 2 * Val(total_debt) < 3 * SAFETY_DEBT_RATIO_THRESHOLD * Val(ebitda)
              THEN 2
         ELSE 1
    ELSE 1

score_safety_standard(info) ==
    Min(BetaTerm(info.beta) + DebtTerm(info.totalDebt, info.ebitda), 5)

\* variant: the guard tests presence instead of truthiness
compute_pegy_standard_presence(info) ==
    LET pe_fwd == info.forwardPE
        eps_current == info.epsCurrentYear
        eps_forward == info.epsForward
    IN  IF ~(IsNum(pe_fwd) /\ IsNum(eps_current) /\ IsNum(eps_forward)
               /\ Val(eps_current) > 0)
        THEN None
        ELSE IF Val(eps_forward) - Val(eps_current) <= 0 THEN None
        ELSE <<[n |-> Val(pe_fwd) * Val(eps_current),
                d |-> 1000 * (Val(eps_forward) - Val(eps_current))]>>

\* None, or the fraction pe_fwd / (growth_rate * 100) as n/d
compute_pegy_standard(info) ==
    LET pe_fwd == info.forwardPE
        eps_current == info.epsCurrentYear
        eps_forward == info.epsForward
    IN  IF ~(Truthy(pe_fwd) /\ Truthy(eps_current) /\ Truthy(eps_forward)
               /\ Val(eps_current) > 0)
        THEN None
        ELSE IF Val(eps_forward) - Val(eps_current) <= 0 THEN None
        ELSE <<[n |-> Val(pe_fwd) * Val(eps_current),
                d |-> 1000 * (Val(eps_forward) - Val(eps_current))]>>

score_value_growth_standard(info) ==
    LET pegy == compute_pegy_standard(info)
        pe_fwd == info.forwardPE
        pegyTerm == IF pegy # None
                    THEN IF FracLeq(Val(pegy), PEGY_THRESHOLDS[1]) THEN 3
                         ELSE IF FracLeq(Val(pegy), PEGY_THRESHOLDS[2]) THEN 2
                         ELSE 1
                    ELSE 1
        peTerm == IF pe_fwd # None
                  THEN IF Val(pe_fwd) < PE_FWD_THRESHOLD THEN 2
                       ELSE IF 2 * Val(pe_fwd) < 3 * PE_FWD_THRESHOLD THEN 1
                       ELSE 0
                  ELSE 1
    IN  Min(pegyTerm + peTerm, 5)

\* variant: the yield thresholds are tested on the raw provider value
score_dividend_standard_raw_yield(info) ==
    LET div_yield == info.dividendYield
        payout_ratio == normalize_payout_ratio(info.payoutRatio)
        yieldTerm == IF div_yield # None
                     THEN IF Val(div_yield) >= DIVIDEND_YIELD_THRESHOLDS[3] THEN 3
                          ELSE IF Val(div_yield) >= DIVIDEND_YIELD_THRESHOLDS[2] THEN 2
                          ELSE IF Val(div_yield) >= DIVIDEND_YIELD_THRESHOLDS[1] THEN 1
                          ELSE 0
                     ELSE 0
        payoutTerm == IF payout_ratio # None
                      THEN IF Val(payout_ratio) <= DIVIDEND_PAYOUT_MAX THEN 2
                           ELSE IF Val(payout_ratio) <= ONE THEN 1
                           ELSE 0
                      ELSE 1
    IN  Min(yieldTerm + payoutTerm, 5)

score_dividend_standard(info) ==
    LET div_yield == normalize_yield_fraction(info.dividendYield)
        payout_ratio == normalize_payout_ratio(info.payoutRatio)
        yieldTerm == IF div_yield # None
                     THEN IF Val(div_yield) >= DIVIDEND_YIELD_THRESHOLDS[3] THEN 3
                          ELSE IF Val(div_yield) >= DIVIDEND_YIELD_THRESHOLDS[2] THEN 2
                          ELSE IF Val(div_yield) >= DIVIDEND_YIELD_THRESHOLDS[1] THEN 1
                          ELSE 0
                     ELSE 0
        payoutTerm == IF payout_ratio # None
                      THEN IF Val(payout_ratio) <= DIVIDEND_PAYOUT_MAX THEN 2
                           ELSE IF Val(payout_ratio) <= ONE THEN 1
                           ELSE 0
                      ELSE 1
    IN  Min(yieldTerm + payoutTerm, 5)

get_standard_score(info) ==
    [Quality |-> score_quality_standard(info),
     Safety |-> score_safety_standard(info),
     ValueGrowth |-> score_value_growth_standard(info),
     Dividend |-> score_dividend_standard(info)]

(***************************************************************************)
(* Scoring, Financial profile                                              *)
(***************************************************************************)
score_quality_financial(info) ==
    LET roe == info.returnOnEquity
        pb == info.priceToBook
        roeTerm == IF roe # None
                   THEN IF Val(roe) >= QUALITY_ROE_THRESHOLDS[3] THEN 3
                        ELSE IF Val(roe) >= QUALITY_ROE_THRESHOLDS[2] THEN 2
                        ELSE IF Val(roe) >= QUALITY_ROE_THRESHOLDS[1] THEN 1
                        ELSE 0
                   ELSE 1
        pbTerm == IF pb # None
                  THEN IF Val(pb) < 10 THEN 2
                       ELSE IF Val(pb) < 15 THEN 1
                       ELSE 0
                  ELSE 1
    IN  Min(roeTerm + pbTerm, 5)

score_safety_financial(info) ==
    LET debt_to_equity == info.debtToEquity
        overall_risk == info.overallRisk
        deTerm == IF debt_to_equity # None
                  THEN IF Val(debt_to_equity) < 100 THEN 2
                       ELSE IF Val(debt_to_equity) < 150 THEN 1
                       ELSE 0
                  ELSE 1
        riskTerm == IF overall_risk # None /\ Val(overall_risk) <= 2 THEN 1 ELSE 0
    IN  Min(BetaTerm(info.beta) + deTerm + riskTerm, 5)

score_value_growth_financial(info) ==
    LET pe_fwd == info.forwardPE
        pe_ttm == info.trailingPE
        pb == info.priceToBook
        fwdTerm == IF pe_fwd # None
                   THEN IF Val(pe_fwd) < 100 THEN 2
                        ELSE IF Val(pe_fwd) < 120 THEN 1
                        ELSE 0
                   ELSE 1
        ttmTerm == IF pe_ttm # None
                   THEN IF Val(pe_ttm) < 120 THEN 2
                        ELSE IF Val(pe_ttm) < 150 THEN 1
                        ELSE 0
                   ELSE 1
        pbTerm == IF pb # None /\ Val(pb) < 8 THEN 1 ELSE 0
    IN  Min(fwdTerm + ttmTerm + pbTerm, 5)

\* variant: an absent payout ratio earns no default point
score_dividend_financial_no_default(info) ==
    LET div_yield == normalize_yield_fraction(info.dividendYield)
        payout_ratio == normalize_payout_ratio(info.payoutRatio)
        yieldTerm == IF div_yield # None
                     THEN IF Val(div_yield) >= 5000 THEN 3
                          ELSE IF Val(div_yield) >= 3000 THEN 2
                          ELSE IF Val(div_yield) >= 2000 THEN 1
                          ELSE 0
                     ELSE 0
        payoutTerm == IF payout_ratio # None
                      THEN IF Val(payout_ratio) <= 70000 THEN 2
                           ELSE IF Val(payout_ratio) <= 90000 THEN 1
                           ELSE 0
                      ELSE 0
    IN  Min(yieldTerm + payoutTerm, 5)

score_dividend_financial(info) ==
    LET div_yield == normalize_yield_fraction(info.dividendYield)
        payout_ratio == normalize_payout_ratio(info.payoutRatio)
        yieldTerm == IF div_yield # None
                     THEN IF Val(div_yield) >= 5000 THEN 3
                          ELSE IF Val(div_yield) >= 3000 THEN 2
                          ELSE IF Val(div_yield) >= 2000 THEN 1
                          ELSE 0
                     ELSE 0
        payoutTerm == IF payout_ratio # None
                      THEN IF Val(payout_ratio) <= 70000 THEN 2
                           ELSE IF Val(payout_ratio) <= 90000 THEN 1
                           ELSE 0
                      ELSE 1
    IN  Min(yieldTerm + payoutTerm, 5)

get_financial_score(info) ==
    [Quality |-> score_quality_financial(info),
     Safety |-> score_safety_financial(info),
     ValueGrowth |-> score_value_growth_financial(info),
     Dividend |-> score_dividend_financial(info)]

(***************************************************************************)
(* Raw metrics                                                             *)
(***************************************************************************)
\* keys a profile's raw dict does not hold are None (_safe_get default)
build_raw_standard(info) ==
    [yield_pct |-> PctRounded(normalize_yield_fraction(info.dividendYield)),
     payout_pct |-> PctRounded(normalize_payout_ratio(info.payoutRatio)),
     pegy |-> compute_pegy_standard(info),
     roa |-> info.returnOnAssets,
     totalDebt |-> info.totalDebt,
     totalCash |-> info.totalCash,
     ebitda |-> info.ebitda,
     beta |-> info.beta,
     roe |-> None, pb |-> None, pe_fwd |-> None, pe_ttm |-> None,
     debtToEquity |-> None, overallRisk |-> None]

build_raw_financial(info) ==
    [roe |-> info.returnOnEquity,
     pb |-> info.priceToBook,
     pe_fwd |-> info.forwardPE,
     pe_ttm |-> info.trailingPE,
     beta |-> info.beta,
     debtToEquity |-> info.debtToEquity,
     overallRisk |-> info.overallRisk,
     yield_pct |-> PctRounded(normalize_yield_fraction(info.dividendYield)),
     payout_pct |-> PctRounded(normalize_payout_ratio(info.payoutRatio)),
     pegy |-> None, roa |-> None, totalDebt |-> None, totalCash |-> None,
     ebitda |-> None]

(***************************************************************************)
(* Anomaly flags                                                           *)
(***************************************************************************)
RequiredFinancial ==
    <<"roe", "pb", "pe_fwd", "pe_ttm", "beta", "overallRisk", "yield_pct",
      "payout_pct">>
RequiredStandard ==
    <<"roa", "totalDebt", "totalCash", "ebitda", "beta", "yield_pct",
      "payout_pct", "pegy">>

IsMissing(x) == x = None

\* variant: the last pass assigns its condition to the flag
SpecialDividendFlag_last_pass_assigns(info, raw, high_yield_alert) ==
    high_yield_alert /\ raw.payout_pct = None

\* flags["special_dividend"] after the passes of lines 653-681, each of which
\* can only set it
SpecialDividendFlag(info, raw, high_yield_alert) ==
    LET dividend_rate == info.dividendRate
        trailing_div_rate == info.trailingAnnualDividendRate
        dividend_yield == normalize_yield_fraction(info.dividendYield)
        trailing_div_yield ==
            normalize_yield_fraction(info.trailingAnnualDividendYield)
    IN  \/ detect_special_dividend(raw.yield_pct)
        \/ /\ Truthy(dividend_rate) /\ Truthy(trailing_div_rate)
           /\ SPECIAL_DIV_MULTIPLIER.d * Val(trailing_div_rate)
                > SPECIAL_DIV_MULTIPLIER.n * Val(dividend_rate)
        \/ /\ Truthy(dividend_yield) /\ Truthy(trailing_div_yield)
           /\ SPECIAL_DIV_MULTIPLIER.d * Val(trailing_div_yield)
                > SPECIAL_DIV_MULTIPLIER.n * Val(dividend_yield)
        \/ (high_yield_alert /\ raw.payout_pct = None)

compute_flags(info, profile, raw) ==
    LET required == IF profile = "Financial" THEN RequiredFinancial
                    ELSE RequiredStandard
        missing == SelectSeq(required, LAMBDA k : IsMissing(raw[k]))
        payout_pct == raw.payout_pct
        y == raw.yield_pct
        high == IF y # None THEN Val(y) >= HIGH_YIELD_ALERT_MIN ELSE FALSE
        pegy == raw.pegy
    IN  [missing_data |-> Len(missing) >= MISSING_DATA_MIN_FIELDS,
         missing_fields |-> missing,
         payout_unsustainable |->
             IF payout_pct # None
             THEN Val(payout_pct) >= PAYOUT_UNSUSTAINABLE_MIN ELSE FALSE,
         special_dividend |-> SpecialDividendFlag(info, raw, high),
         extreme_peg |->
             IF profile = "Standard" /\ pegy # None
             THEN FracLeq(Val(pegy), EXTREME_PEG_LOW_MAX)
                    \/ FracLeq(EXTREME_PEG_HIGH_MIN, Val(pegy))
             ELSE FALSE,
         high_yield_alert |-> high]

(***************************************************************************)
(* Penalties and boost                                                     *)
(***************************************************************************)
\* variant: max written for min
PenaltySpecialDividend_max(blocks, flags) ==
    IF flags.special_dividend
    THEN [blocks EXCEPT !.Dividend =
              Max(blocks.Dividend, SPECIAL_DIVIDEND_PENALTY.max_dividend_score)]
    ELSE blocks

\* lines 219-222
PenaltySpecialDividend(blocks, flags) ==
    IF flags.special_dividend
    THEN [blocks EXCEPT !.Dividend =
              Min(blocks.Dividend, SPECIAL_DIVIDEND_PENALTY.max_dividend_score)]
    ELSE blocks

\* lines 224-226
PenaltyHighYield(blocks, flags) ==
    IF flags.high_yield_alert
    THEN [blocks EXCEPT !.Dividend =
              Max(0, blocks.Dividend - HIGH_YIELD_DIVIDEND_PENALTY_POINTS)]
    ELSE blocks

\* index of the first TRUE of hits, scanned in order from i; 0 when none
RECURSIVE FirstHit(_, _)
FirstHit(hits, i) ==
    IF i > Len(hits) THEN 0
    ELSE IF hits[i] THEN i
    ELSE FirstHit(hits, i + 1)

\* index of the last TRUE of hits, scanned backwards from i; 0 when none
RECURSIVE LastHit(_, _)
LastHit(hits, i) ==
    IF i < 1 THEN 0
    ELSE IF hits[i] THEN i
    ELSE LastHit(hits, i - 1)

\* lines 228-234
PenaltyOverallRisk(profile, blocks, raw) ==
    IF profile = "Financial" /\ raw.overallRisk # None
    THEN LET ths == FINANCIAL_OVERALLRISK_SAFETY_THRESHOLDS
             i == FirstHit([j \in 1..Len(ths) |->
                               Val(raw.overallRisk) >= ths[j][1]], 1)
         IN  IF i = 0 THEN blocks
             ELSE [blocks EXCEPT !.Safety = Max(0, blocks.Safety - ths[i][2])]
    ELSE blocks

\* variant: the thresholds are walked in ascending order
PenaltyExtremePayout_ascending(profile, blocks, raw) ==
    IF profile = "Standard" /\ raw.payout_pct # None
    THEN LET ths == EXTREME_PAYOUT_THRESHOLDS
             i == LastHit([j \in 1..Len(ths) |->
                              Val(raw.payout_pct) >= ths[j].threshold], Len(ths))
         IN  IF i = 0 THEN blocks
             ELSE LET action == ths[i]
                      d1 == IF action.dividend_to # None
                            THEN Val(action.dividend_to) ELSE blocks.Dividend
                      d2 == IF action.dividend_cap # None
                            THEN Min(d1, Val(action.dividend_cap)) ELSE d1
                      s1 == IF action.safety_minus # None
                            THEN Max(0, blocks.Safety - Val(action.safety_minus))
                            ELSE blocks.Safety
                  IN  [blocks EXCEPT !.Dividend = d2, !.Safety = s1]
    ELSE blocks

\* lines 236-247
PenaltyExtremePayout(profile, blocks, raw) ==
    IF profile = "Standard" /\ raw.payout_pct # None
    THEN LET ths == EXTREME_PAYOUT_THRESHOLDS
             i == FirstHit([j \in 1..Len(ths) |->
                               Val(raw.payout_pct) >= ths[j].threshold], 1)
         IN  IF i = 0 THEN blocks
             ELSE LET action == ths[i]
                      d1 == IF action.dividend_to # None
                            THEN Val(action.dividend_to) ELSE blocks.Dividend
                      d2 == IF action.dividend_cap # None
                            THEN Min(d1, Val(action.dividend_cap)) ELSE d1
                      s1 == IF action.safety_minus # None
                            THEN Max(0, blocks.Safety - Val(action.safety_minus))
                            ELSE blocks.Safety
                  IN  [blocks EXCEPT !.Dividend = d2, !.Safety = s1]
    ELSE blocks

\* variant: the high-yield subtraction comes before the special-dividend cap
apply_all_penalties_subtract_first(profile, blocks, flags, raw) ==
    PenaltyExtremePayout(profile,
        PenaltyOverallRisk(profile,
            PenaltySpecialDividend(PenaltyHighYield(blocks, flags), flags),
            raw),
        raw)

apply_all_penalties(profile, blocks, flags, raw) ==
    PenaltyExtremePayout(profile,
        PenaltyOverallRisk(profile,
            PenaltyHighYield(PenaltySpecialDividend(blocks, flags), flags),
            raw),
        raw)

apply_compounder_boost(profile, blocks, raw) ==
    IF profile # "Standard" THEN blocks
    ELSE IF raw.roa = None \/ raw.beta = None \/ raw.payout_pct = None THEN blocks
    ELSE LET criteria == COMPOUNDER_QUALITY_CRITERIA
         IN  IF /\ Val(raw.roa) >= criteria.roa_min
                /\ Val(raw.beta) < criteria.beta_max
                /\ criteria.payout_min <= Val(raw.payout_pct)
                /\ Val(raw.payout_pct) <= criteria.payout_max
                /\ blocks.Safety >= criteria.safety_min
             THEN [blocks EXCEPT !.Quality =
                       Min(5, blocks.Quality + COMPOUNDER_QUALITY_BOOST_POINTS)]
             ELSE blocks

(***************************************************************************)
(* Normalisation and recommendation                                        *)
(***************************************************************************)
get_profile_max_total(profile) == IF profile = "Financial" THEN 20 ELSE 17

\* variant: the quotient is truncated, not rounded
normalize_score_truncated(score_raw, profile) ==
    LET max_total == get_profile_max_total(profile)
    IN  Max(0, Min(20, (score_raw * 20) \div max_total))

normalize_score(score_raw, profile) ==
    LET max_total == get_profile_max_total(profile)
        score_normalized == RoundHalfEven(score_raw * 20, max_total)
    IN  Max(0, Min(20, score_normalized))

SumBlocks(blocks) ==
    blocks.Quality + blocks.Safety + blocks.ValueGrowth + blocks.Dividend

\* variant: the bands are tested on the score itself
EffectiveScore_unadjusted(score, flags) == score

\* the score the bands are tested on
EffectiveScore(score, flags) ==
    IF flags.special_dividend /\ score >= 12 THEN score - 1 ELSE score

Description(action) ==
    CASE action = "ACHETER" -> "Excellence exceptionnelle"
      [] action = "RENFORCER" -> "Tres bonne qualite"
      [] action = "CONSERVER" -> "Coeur de portefeuille"
      [] action = "ALLEGER" -> "Qualite correcte mais pas prioritaire"
      [] action = "VENDRE" -> "Qualite insuffisante ou risque eleve"

WARN_PAYOUT == "Surveiller dividende (payout eleve)"
WARN_YIELD == "Yield extreme, verifier durabilite"
WARN_SPECIAL == "Dividende exceptionnel detecte"

\* variant: the warning thresholds are tested on the effective score
get_recommendation_effective_thresholds(score, flags) ==
    LET effective_score == EffectiveScore(score, flags)
        ths == RECOMMENDATION_THRESHOLDS
        i == FirstHit([j \in 1..Len(ths) |->
                          ths[j].score_min <= effective_score
                            /\ effective_score <= ths[j].score_max], 1)
    IN  IF i = 0
        THEN [action |-> "INDEFINI", description |-> "Score hors limites",
              warnings |-> None]
        ELSE LET action == ths[i].action
                 w1 == IF flags.payout_unsustainable /\ effective_score >= 14
                       THEN <<WARN_PAYOUT>> ELSE <<>>
                 w2 == IF flags.high_yield_alert
                            /\ action \in {"ACHETER", "RENFORCER"}
                       THEN <<WARN_YIELD>> ELSE <<>>
                 w3 == IF flags.special_dividend /\ effective_score >= 12
                       THEN <<WARN_SPECIAL>> ELSE <<>>
                 warnings == w1 \o w2 \o w3
             IN  [action |-> action, description |-> Description(action),
                  warnings |-> IF warnings # <<>> THEN <<warnings>> ELSE None]

\* the result dict; an absent "warnings" key is None
get_recommendation(score, flags) ==
    LET effective_score == EffectiveScore(score, flags)
        ths == RECOMMENDATION_THRESHOLDS
        i == FirstHit([j \in 1..Len(ths) |->
                          ths[j].score_min <= effective_score
                            /\ effective_score <= ths[j].score_max], 1)
    IN  IF i = 0
        THEN [action |-> "INDEFINI", description |-> "Score hors limites",
              warnings |-> None]
        ELSE LET action == ths[i].action
                 w1 == IF flags.payout_unsustainable /\ score >= 14
                       THEN <<WARN_PAYOUT>> ELSE <<>>
                 w2 == IF flags.high_yield_alert
                            /\ action \in {"ACHETER", "RENFORCER"}
                       THEN <<WARN_YIELD>> ELSE <<>>
                 w3 == IF flags.special_dividend /\ score >= 12
                       THEN <<WARN_SPECIAL>> ELSE <<>>
                 warnings == w1 \o w2 \o w3
             IN  [action |-> action, description |-> Description(action),
                  warnings |-> IF warnings # <<>> THEN <<warnings>> ELSE None]

(***************************************************************************)
(* analyze_stock as one function of the fetch outcome                      *)
(***************************************************************************)
\* variant: the quote type is compared as given
Upper_identity(s) == s

\* str.upper() on the quote types the model draws from
Upper(s) ==
    CASE s = "equity" -> "EQUITY"
      [] s = "Etf" -> "ETF"
      [] OTHER -> s

\* a or b or c on optional texts: None and "" are falsy
FirstTruthyText(a, b, c) ==
    IF IsStr(a) /\ Text(a) # "" THEN Text(a)
    ELSE IF IsStr(b) /\ Text(b) # "" THEN Text(b)
    ELSE c

CompanyName(info, symbol) == FirstTruthyText(info.shortName, info.longName, symbol)

\* variant: the name read before the failure is dropped
ErrorResult_symbol_name(symbol, name, message) ==
    [Ticker |-> symbol, Name |-> symbol, Error |-> <<message>>, Profil |-> None,
     Score |-> None, Recommendation |-> None, Flags |-> None, Details |-> None]

ErrorResult(symbol, name, message) ==
    [Ticker |-> symbol, Name |-> name, Error |-> <<message>>, Profil |-> None,
     Score |-> None, Recommendation |-> None, Flags |-> None, Details |-> None]

ERR_FETCH == "HTTPError"
ERR_ATTRIBUTE == "'NoneType' object has no attribute"
ERR_TYPE == "'>=' not supported between instances of 'str' and 'float'"

\* quote_type.upper() on a None value raises AttributeError
QuoteTypeRaises(info) == ~IsStr(SafeGet(info.quoteType, Str("")))
QuoteTypeValid(info) ==
    Upper(Text(SafeGet(info.quoteType, Str("")))) \in {"EQUITY", "ETF"}
InvalidQuoteTypeMessage(info) ==
    "Invalid quoteType: " \o Text(SafeGet(info.quoteType, Str("")))

ProfileOf(info) == IF is_financial_firm(info) THEN "Financial" ELSE "Standard"

\* the first comparison of a scorer with a text operand raises TypeError
ScoreRaises(info, profile) ==
    IF profile = "Financial" THEN IsStr(info.returnOnEquity)
    ELSE IsStr(info.returnOnAssets)

ScoreOf(info, profile) ==
    IF profile = "Financial" THEN get_financial_score(info)
    ELSE get_standard_score(info)
RawOf(info, profile) ==
    IF profile = "Financial" THEN build_raw_financial(info)
    ELSE build_raw_standard(info)

SuccessResult(symbol, name, profile, score_normalized, flags, blocks, raw) ==
    [Ticker |-> symbol, Name |-> name, Error |-> None, Profil |-> <<profile>>,
     Score |-> <<ToString(score_normalized)>>,
     Recommendation |-> <<get_recommendation(score_normalized, flags)>>,
     Flags |-> <<flags>>,
     Details |-> <<[blocks |-> blocks, raw |-> raw]>>]

\* fetched is [ok |-> FALSE] when yf.Ticker(symbol).info raises
analyze_stock(symbol, fetched) ==
    IF ~fetched.ok THEN ErrorResult(symbol, symbol, ERR_FETCH)
    ELSE LET info == fetched.info
             company_name == CompanyName(info, symbol)
         IN  IF QuoteTypeRaises(info)
             THEN ErrorResult(symbol, company_name, ERR_ATTRIBUTE)
             ELSE IF ~QuoteTypeValid(info)
             THEN ErrorResult(symbol, company_name, InvalidQuoteTypeMessage(info))
             ELSE IF IsFinancialFirmRaises(info)
             THEN ErrorResult(symbol, company_name, ERR_ATTRIBUTE)
             ELSE LET profile == ProfileOf(info)
                  IN  IF ScoreRaises(info, profile)
                      THEN ErrorResult(symbol, company_name, ERR_TYPE)
                      ELSE LET raw == RawOf(info, profile)
                               flags == compute_flags(info, profile, raw)
                               blocks ==
                                   apply_compounder_boost(profile,
                                       apply_all_penalties(profile,
                                           ScoreOf(info, profile), flags, raw),
                                       raw)
                           IN  SuccessResult(symbol, company_name, profile,
                                   normalize_score(SumBlocks(blocks), profile),
                                   flags, blocks, raw)

(***************************************************************************)
(* State                                                                   *)
(***************************************************************************)
VARIABLES
    pc,                \* position in analyze_stock / analyze_portfolio
    symbol,            \* the identifier under analysis
    info,              \* ticker.info
    company_name,
    profile,
    blocks,            \* the mutable blocks dict
    raw,
    flags,
    score_normalized,
    result,            \* the dict analyze_stock returns
    symbols,           \* analyze_portfolio's argument
    results,           \* analyze_portfolio's list
    answers            \* what the provider answered, one entry per fetch

vars == <<pc, symbol, info, company_name, profile, blocks, raw, flags,
          score_normalized, result, symbols, results, answers>>

(***************************************************************************)
(* Provider answers the model draws from                                   *)
(***************************************************************************)
NoInfo ==
    [shortName |-> None, longName |-> None, quoteType |-> None,
     sector |-> None, industry |-> None,
     returnOnAssets |-> None, beta |-> None, totalDebt |-> None,
     totalCash |-> None, ebitda |-> None, forwardPE |-> None,
     epsCurrentYear |-> None, epsForward |-> None, dividendYield |-> None,
     payoutRatio |-> None, returnOnEquity |-> None, priceToBook |-> None,
     trailingPE |-> None, debtToEquity |-> None, overallRisk |-> None,
     dividendRate |-> None, trailingAnnualDividendRate |-> None,
     trailingAnnualDividendYield |-> None]

Equity == [NoInfo EXCEPT !.shortName = Str("TotalEnergies"),
                         !.quoteType = Str("EQUITY")]

RoaValues == {None, Num(10), Num(30), Num(60), Num(70)}
BetaValues == {None, Num(5), Num(8), Num(15)}
\* <<totalDebt, ebitda, totalCash>>
DebtValues ==
    {<<None, None, None>>, <<Num(100), Num(100), None>>,
     <<Num(250), Num(100), Num(50)>>, <<Num(400), Num(100), Num(50)>>,
     <<Num(100), Num(0), Num(50)>>}
\* <<forwardPE, epsCurrentYear, epsForward>>
GrowthValues ==
    {<<None, None, None>>, <<Num(120), Num(200), Num(250)>>,
     <<Num(120), Num(200), Num(240)>>, <<Num(200), Num(200), Num(250)>>,
     <<Num(300), Num(200), Num(150)>>, <<Num(120), Num(200), Num(800)>>,
     <<Num(200), Num(200), Num(210)>>}
YieldValues ==
    {None, Num(0), Num(450000), Num(6500), Num(900000), Num(2500000)}
PayoutValues ==
    {None, Num(-10000), Num(50000), Num(97000), Num(120000), Num(160000)}
\* <<dividendRate, trailingAnnualDividendRate, trailingAnnualDividendYield>>
TrailingValues ==
    {<<None, None, None>>, <<Num(100), Num(200), None>>,
     <<Num(100), Num(100), Num(6000)>>}

RoeValues == {None, Num(50), Num(160)}
PbValues == {None, Num(7), Num(20)}
FwdPeValues == {None, Num(90), Num(130)}
TtmPeValues == {None, Num(110), Num(160)}
FinBetaValues == {None, Num(5), Num(15)}
DebtToEquityValues == {None, Num(50), Num(200)}
OverallRiskValues == {None, Num(1), Num(8)}
FinYieldValues == {None, Num(0), Num(450000), Num(900000), Num(2500000)}
FinPayoutValues == {None, Num(50000), Num(80000), Num(97000)}

StandardInfo(roa, beta, debt, growth, y, p, tr) ==
    [Equity EXCEPT !.sector = Str("Technology"), !.industry = Str("Software"),
        !.returnOnAssets = roa, !.beta = beta,
        !.totalDebt = debt[1], !.ebitda = debt[2], !.totalCash = debt[3],
        !.forwardPE = growth[1], !.epsCurrentYear = growth[2],
        !.epsForward = growth[3],
        !.dividendYield = y, !.payoutRatio = p,
        !.dividendRate = tr[1], !.trailingAnnualDividendRate = tr[2],
        !.trailingAnnualDividendYield = tr[3]]

FinancialInfo(roe, pb, fwd, ttm, beta, de, risk, y, p, tr) ==
    [Equity EXCEPT !.sector = Str("Financial Services"),
        !.industry = Str("Banks - Regional"),
        !.returnOnEquity = roe, !.priceToBook = pb, !.forwardPE = fwd,
        !.trailingPE = ttm, !.beta = beta, !.debtToEquity = de,
        !.overallRisk = risk, !.dividendYield = y, !.payoutRatio = p,
        !.dividendRate = tr[1], !.trailingAnnualDividendRate = tr[2],
        !.trailingAnnualDividendYield = tr[3]]

\* Scenario A: a Standard equity, every field not listed absent
ScenarioA ==
    [NoInfo EXCEPT !.quoteType = Str("EQUITY"),
        !.returnOnAssets = Num(60), !.beta = Num(5),
        !.totalDebt = Num(100), !.ebitda = Num(100),
        !.forwardPE = Num(120), !.epsCurrentYear = Num(200),
        !.epsForward = Num(250), !.dividendYield = Num(450000),
        !.payoutRatio = Num(50000)]

\* answers that end the analysis early, and the name / profile text variants
OtherInfos ==
    {NoInfo, ScenarioA,
     [Equity EXCEPT !.quoteType = Str("MUTUALFUND")],
     [Equity EXCEPT !.quoteType = Str("MUTUALFUND"), !.shortName = None],
     [Equity EXCEPT !.quoteType = Str("equity")],
     [Equity EXCEPT !.quoteType = Str("Etf"), !.shortName = Str(""),
                    !.longName = Str("TotalEnergies SE")],
     [Equity EXCEPT !.quoteType = Null],
     [Equity EXCEPT !.sector = Null],
     [Equity EXCEPT !.industry = Str("Banks - Regional")],
     [Equity EXCEPT !.returnOnAssets = Str("N/A")],
     [Equity EXCEPT !.sector = Str("Financial Services"),
                    !.returnOnEquity = Str("N/A")]}

(***************************************************************************)
(* analyze_stock, step by step                                             *)
(***************************************************************************)
Init ==
    /\ pc = "start"
    /\ symbol = "FR0000120271"
    /\ info = None /\ company_name = symbol /\ profile = None
    /\ blocks = None /\ raw = None /\ flags = None
    /\ score_normalized = None /\ result = None
    /\ symbols = <<>> /\ results = <<>> /\ answers = <<>>

Return(r) ==
    /\ pc' = "done"
    /\ result' = r

\* lines 701-702 raise
FetchFails ==
    /\ pc = "start"
    /\ Return(ErrorResult(symbol, company_name, ERR_FETCH))
    /\ UNCHANGED <<symbol, info, company_name, profile, blocks, raw, flags,
                   score_normalized, symbols, results, answers>>

\* lines 701-720: fetch, name, quote type check, profile
Fetched(i) ==
    /\ pc = "start"
    /\ info' = i
    /\ company_name' = CompanyName(i, symbol)
    /\ IF QuoteTypeRaises(i)
       THEN Return(ErrorResult(symbol, company_name', ERR_ATTRIBUTE))
              /\ UNCHANGED profile
       ELSE IF ~QuoteTypeValid(i)
       THEN Return(ErrorResult(symbol, company_name', InvalidQuoteTypeMessage(i)))
              /\ UNCHANGED profile
       ELSE IF IsFinancialFirmRaises(i)
       THEN Return(ErrorResult(symbol, company_name', ERR_ATTRIBUTE))
              /\ UNCHANGED profile
       ELSE /\ profile' = ProfileOf(i)
            /\ pc' = "classified"
            /\ UNCHANGED result
    /\ UNCHANGED <<symbol, blocks, raw, flags, score_normalized, symbols,
                   results, answers>>

FetchStandard ==
    /\ pc = "start"
    /\ \E roa \in RoaValues, beta \in BetaValues, debt \in DebtValues,
       growth \in GrowthValues, y \in YieldValues, p \in PayoutValues,
       tr \in TrailingValues :
        Fetched(StandardInfo(roa, beta, debt, growth, y, p, tr))

FetchFinancial ==
    /\ pc = "start"
    /\ \E roe \in RoeValues, pb \in PbValues, fwd \in FwdPeValues,
       ttm \in TtmPeValues, beta \in FinBetaValues, de \in DebtToEquityValues,
       risk \in OverallRiskValues, y \in FinYieldValues, p \in FinPayoutValues,
       tr \in TrailingValues :
        Fetched(FinancialInfo(roe, pb, fwd, ttm, beta, de, risk, y, p, tr))

FetchOther ==
    /\ pc = "start"
    /\ \E i \in OtherInfos : Fetched(i)

\* lines 723-731: blocks, raw metrics, then the flags
ScoreAndFlag ==
    /\ pc = "classified"
    /\ IF ScoreRaises(info, profile)
       THEN /\ Return(ErrorResult(symbol, company_name, ERR_TYPE))
            /\ UNCHANGED <<blocks, raw, flags>>
       ELSE /\ blocks' = ScoreOf(info, profile)
            /\ raw' = RawOf(info, profile)
            /\ flags' = compute_flags(info, profile, raw')
            /\ pc' = "flagged"
            /\ UNCHANGED result
    /\ UNCHANGED <<symbol, info, company_name, profile, score_normalized,
                   symbols, results, answers>>

\* one in-place mutation of blocks by apply_all_penalties
PenaltyStep(from, to, b) ==
    /\ pc = from
    /\ blocks' = b
    /\ pc' = to
    /\ UNCHANGED <<symbol, info, company_name, profile, raw, flags,
                   score_normalized, result, symbols, results, answers>>

\* variant: the cap consumes the flag it read
StepSpecialDividend_clears_flag ==
    /\ pc = "flagged"
    /\ blocks' = PenaltySpecialDividend(blocks, flags)
    /\ flags' = [flags EXCEPT !.special_dividend = FALSE]
    /\ pc' = "pen1"
    /\ UNCHANGED <<symbol, info, company_name, profile, raw,
                   score_normalized, result, symbols, results, answers>>

StepSpecialDividend ==
    PenaltyStep("flagged", "pen1", PenaltySpecialDividend(blocks, flags))
StepHighYield ==
    PenaltyStep("pen1", "pen2", PenaltyHighYield(blocks, flags))
StepOverallRisk ==
    PenaltyStep("pen2", "pen3", PenaltyOverallRisk(profile, blocks, raw))
StepExtremePayout ==
    PenaltyStep("pen3", "pen4", PenaltyExtremePayout(profile, blocks, raw))
StepCompounderBoost ==
    PenaltyStep("pen4", "boosted", apply_compounder_boost(profile, blocks, raw))

\* lines 740-762
Finish ==
    /\ pc = "boosted"
    /\ score_normalized' = normalize_score(SumBlocks(blocks), profile)
    /\ Return(SuccessResult(symbol, company_name, profile, score_normalized',
                            flags, blocks, raw))
    /\ UNCHANGED <<symbol, info, company_name, profile, blocks, raw, flags,
                   symbols, results, answers>>

Next ==
    \/ FetchFails
    \/ FetchStandard
    \/ FetchFinancial
    \/ FetchOther
    \/ ScoreAndFlag
    \/ StepSpecialDividend
    \/ StepHighYield
    \/ StepOverallRisk
    \/ StepExtremePayout
    \/ StepCompounderBoost
    \/ Finish

Spec == Init /\ [][Next]_vars

\* the step machine returns what analyze_stock returns
StepsAgree ==
    pc = "done" =>
        result = analyze_stock(symbol,
                     IF info = None THEN [ok |-> FALSE]
                     ELSE [ok |-> TRUE, info |-> info])

(***************************************************************************)
(* analyze_portfolio                                                       *)
(***************************************************************************)
MaxSymbols == 3
Symbols == {"FR0000120271", "FR0000131104"}
SymbolLists == UNION {[1..n -> Symbols] : n \in 0..MaxSymbols}

ProviderAnswers ==
    {[ok |-> FALSE]} \cup
    {[ok |-> TRUE, info |-> i] :
        i \in {NoInfo, ScenarioA,
               [Equity EXCEPT !.quoteType = Str("MUTUALFUND")],
               [Equity EXCEPT !.quoteType = Null],
               [Equity EXCEPT !.returnOnAssets = Str("N/A")],
               [NoInfo EXCEPT !.quoteType = Str("EQUITY"),
                              !.sector = Str("Financial Services"),
                              !.returnOnEquity = Str("N/A")]}}

InitPortfolio ==
    /\ pc = "loop"
    /\ symbols \in SymbolLists
    /\ results = <<>> /\ answers = <<>>
    /\ symbol = None /\ info = None /\ company_name = None /\ profile = None
    /\ blocks = None /\ raw = None /\ flags = None
    /\ score_normalized = None /\ result = None

\* lines 782-785: one iteration, analyze_stock run to its return
AnalyzeNext ==
    /\ pc = "loop"
    /\ Len(results) < Len(symbols)
    /\ \E a \in ProviderAnswers :
        /\ answers' = Append(answers, a)
        /\ results' = Append(results, analyze_stock(symbols[Len(results) + 1], a))
    /\ UNCHANGED <<pc, symbol, info, company_name, profile, blocks, raw, flags,
                   score_normalized, result, symbols>>

\* line 786
ReturnResults ==
    /\ pc = "loop"
    /\ Len(results) = Len(symbols)
    /\ pc' = "returned"
    /\ UNCHANGED <<symbol, info, company_name, profile, blocks, raw, flags,
                   score_normalized, result, symbols, results, answers>>

NextPortfolio == AnalyzeNext \/ ReturnResults

SpecPortfolio == InitPortfolio /\ [][NextPortfolio]_vars

(***************************************************************************)
(* get_recommendation on its own, for every integer score near 0..20       *)
(***************************************************************************)
ScoreMargin == 3
FlagValues ==
    [missing_data : {FALSE}, missing_fields : {<<>>},
     payout_unsustainable : BOOLEAN, special_dividend : BOOLEAN,
     extreme_peg : {FALSE}, high_yield_alert : BOOLEAN]

InitRecommendation ==
    /\ pc = "call"
    /\ score_normalized \in (0 - ScoreMargin)..(20 + ScoreMargin)
    /\ flags \in FlagValues
    /\ result = None
    /\ symbol = None /\ info = None /\ company_name = None /\ profile = None
    /\ blocks = None /\ raw = None
    /\ symbols = <<>> /\ results = <<>> /\ answers = <<>>

Recommend ==
    /\ pc = "call"
    /\ result' = get_recommendation(score_normalized, flags)
    /\ pc' = "recommended"
    /\ UNCHANGED <<symbol, info, company_name, profile, blocks, raw, flags,
                   score_normalized, symbols, results, answers>>

NextRecommendation == Recommend

SpecRecommendation == InitRecommendation /\ [][NextRecommendation]_vars

(***************************************************************************)
(* normalize_yield_fraction and normalize_payout_ratio on their own, for   *)
(* None, a grid of fractions around 0 and 1.0, and the values of           *)
(* _run_unit_tests                                                         *)
(***************************************************************************)
NormalizeSteps == 12
\* multiples of 0.125 (1.0 is the eighth)
FractionGrid ==
    {None} \cup {Num(k * 12500) : k \in (0 - NormalizeSteps)..NormalizeSteps}
\* with 4.37 and 0.0437
YieldFractions == FractionGrid \cup {Num(437000), Num(4370)}
\* with 2.2059
PayoutFractions == FractionGrid \cup {Num(220590)}

InitNormalize ==
    /\ pc = "call"
    /\ \E y \in YieldFractions, p \in PayoutFractions :
           info = [NoInfo EXCEPT !.dividendYield = y, !.payoutRatio = p]
    /\ result = None
    /\ symbol = None /\ company_name = None /\ profile = None
    /\ blocks = None /\ raw = None /\ flags = None /\ score_normalized = None
    /\ symbols = <<>> /\ results = <<>> /\ answers = <<>>

\* both helpers applied, and the percentage the raw metrics show for the ratio
Normalize ==
    /\ pc = "call"
    /\ result' =
           [yield |-> normalize_yield_fraction(info.dividendYield),
            payout |-> normalize_payout_ratio(info.payoutRatio),
            payout_pct |->
                PctRounded(normalize_payout_ratio(info.payoutRatio))]
    /\ pc' = "normalized"
    /\ UNCHANGED <<symbol, info, company_name, profile, blocks, raw, flags,
                   score_normalized, symbols, results, answers>>

NextNormalize == Normalize

SpecNormalize == InitNormalize /\ [][NextNormalize]_vars

(***************************************************************************)
(* compute_pegy_standard on its own: absent, zero, negative and positive   *)
(* values of the three fields it reads                                     *)
(***************************************************************************)
PegyForwardPE == {None, Num(0), Num(0 - 50), Num(120), Num(300)}
PegyEpsCurrent == {None, Num(0), Num(0 - 10), Num(20)}
PegyEpsForward == {None, Num(0), Num(15), Num(20), Num(25), Num(80)}

InitPegy ==
    /\ pc = "call"
    /\ \E pe \in PegyForwardPE, ec \in PegyEpsCurrent, ef \in PegyEpsForward :
           info = [NoInfo EXCEPT !.forwardPE = pe, !.epsCurrentYear = ec,
                                 !.epsForward = ef]
    /\ result = None
    /\ symbol = None /\ company_name = None /\ profile = None
    /\ blocks = None /\ raw = None /\ flags = None /\ score_normalized = None
    /\ symbols = <<>> /\ results = <<>> /\ answers = <<>>

ComputePegy ==
    /\ pc = "call"
    /\ result' = compute_pegy_standard(info)
    /\ pc' = "computed"
    /\ UNCHANGED <<symbol, info, company_name, profile, blocks, raw, flags,
                   score_normalized, symbols, results, answers>>

NextPegy == ComputePegy

SpecPegy == InitPegy /\ [][NextPegy]_vars

(***************************************************************************)
(* The scoring, raw-metrics and flag step on its own, in both profiles,    *)
(* for yields and payout ratios that are absent, zero, negative, and that  *)
(* round up, down or not at all at two decimals of a percent               *)
(***************************************************************************)
\* 0.00001, 0.01503, 0.04567, 0.065, 1.0, 4.503, 9.0, 25.0
RawYieldInputs ==
    {None, Num(0), Num(1), Num(1503), Num(4567), Num(6500), Num(ONE),
     Num(450300), Num(900000), Num(2500000)}
\* -0.1, 0.5, 0.65432, 0.97, 1.49996, 2.2059
RawPayoutInputs ==
    {None, Num(0 - 10000), Num(0), Num(50000), Num(65432), Num(97000),
     Num(149996), Num(220590)}
RawMetricsInfos ==
    {StandardInfo(None, None, <<None, None, None>>, <<None, None, None>>,
                  y, p, <<None, None, None>>) :
         y \in RawYieldInputs, p \in RawPayoutInputs}
    \cup
    {FinancialInfo(None, None, None, None, None, None, None,
                   y, p, <<None, None, None>>) :
         y \in RawYieldInputs, p \in RawPayoutInputs}

\* analyze_stock after line 720, the profile known
InitRawMetrics ==
    /\ pc = "classified"
    /\ symbol = "FR0000120271"
    /\ info \in RawMetricsInfos
    /\ company_name = CompanyName(info, symbol)
    /\ profile = ProfileOf(info)
    /\ blocks = None /\ raw = None /\ flags = None
    /\ score_normalized = None /\ result = None
    /\ symbols = <<>> /\ results = <<>> /\ answers = <<>>

NextRawMetrics == ScoreAndFlag

SpecRawMetrics == InitRawMetrics /\ [][NextRawMetrics]_vars

(***************************************************************************)
(* Properties                                                              *)
(***************************************************************************)
Succeeded == pc = "done" /\ result.Error = None
HasBlocks ==
    pc \in {"flagged", "pen1", "pen2", "pen3", "pen4", "boosted"} \/ Succeeded
FinalBlocks == result.Details[1].blocks
Abs(x) == IF x < 0 THEN 0 - x ELSE x

\* C1: after scoring and after each of the five adjustment steps every block
\* is within its documented bound: Standard Quality 0..2 and Safety,
\* ValueGrowth, Dividend 0..5; Financial all four blocks 0..5.
BlocksWithinBounds ==
    HasBlocks =>
        /\ blocks.Quality \in 0..(IF profile = "Standard" THEN 2 ELSE 5)
        /\ blocks.Safety \in 0..5
        /\ blocks.ValueGrowth \in 0..5
        /\ blocks.Dividend \in 0..5

\* r is num / den rounded to the nearest integer, a tie going to the even one
IsRounded(r, num, den) ==
    \/ 2 * Abs(num - r * den) < den
    \/ 2 * Abs(num - r * den) = den /\ r % 2 = 0

FlagsFrozen ==
    HasBlocks =>
        /\ raw = RawOf(info, profile)
        /\ flags = compute_flags(info, profile, RawOf(info, profile))
        /\ Succeeded =>
               /\ result.Flags = <<compute_flags(info, profile, RawOf(info, profile))>>
               /\ result.Details[1].raw = RawOf(info, profile)

\* penalties changed the blocks of an analysis whose flags were read
FlagsFrozenWitness ==
    /\ Succeeded
    /\ flags.special_dividend
    /\ flags.high_yield_alert
    /\ FinalBlocks # ScoreOf(info, profile)

NoFlagSet(f) ==
    /\ ~f.missing_data /\ ~f.payout_unsustainable /\ ~f.special_dividend
    /\ ~f.extreme_peg /\ ~f.high_yield_alert

\* C4 as stated: Scenario A gives Quality 2, Safety 5, ValueGrowth 5,
\* Dividend 3, raw sum 15, score 18, no flag and ACHETER.
ScenarioAOriginal ==
    (pc = "done" /\ info = ScenarioA) =>
        /\ result.Error = None
        /\ result.Profil = <<"Standard">>
        /\ FinalBlocks = [Quality |-> 2, Safety |-> 5, ValueGrowth |-> 5,
                          Dividend |-> 3]
        /\ SumBlocks(FinalBlocks) = 15
        /\ result.Score = <<"18">>
        /\ NoFlagSet(result.Flags[1])
        /\ result.Recommendation[1].action = "ACHETER"

\* C4 amended: Scenario A gives Quality 2, Safety 5, ValueGrowth 5,
\* Dividend 4 (yield 0.045 >= 0.04 earns 2, payout 0.5 <= 0.8 earns 2),
\* raw sum 16, score round(16 * 20 / 17) = 19, no flag and ACHETER.
ScenarioAAmended ==
    (pc = "done" /\ info = ScenarioA) =>
        /\ result.Error = None
        /\ result.Profil = <<"Standard">>
        /\ FinalBlocks = [Quality |-> 2, Safety |-> 5, ValueGrowth |-> 5,
                          Dividend |-> 4]
        /\ SumBlocks(FinalBlocks) = 16
        /\ result.Score = <<"19">>
        /\ NoFlagSet(result.Flags[1])
        /\ result.Recommendation[1].action = "ACHETER"

ScenarioAWitness == pc = "done" /\ info = ScenarioA /\ result.Error = None

\* C5: in a finished Standard analysis, payout_pct >= 150 leaves Dividend 0
\* and Safety one below its scored value (floored at 0); 100 <= payout_pct <
\* 150 leaves Dividend at most 1 and Safety as scored; payout_unsustainable is
\* set in both cases; payoutRatio 1.6 is payout_pct 160.
ExtremePayoutGate ==
    (Succeeded /\ result.Profil = <<"Standard">>) =>
        /\ info.payoutRatio = Num(160000) => raw.payout_pct = Num(16000)
        /\ raw.payout_pct # None =>
               LET payout_pct == Val(raw.payout_pct)
                   scored == score_safety_standard(info)
               IN  /\ payout_pct >= 15000 =>
                          /\ FinalBlocks.Dividend = 0
                          /\ FinalBlocks.Safety = Max(0, scored - 1)
                          /\ result.Flags[1].payout_unsustainable
                   /\ (payout_pct >= 10000 /\ payout_pct < 15000) =>
                          /\ FinalBlocks.Dividend <= 1
                          /\ FinalBlocks.Safety = scored
                          /\ result.Flags[1].payout_unsustainable

\* Scenario B with a Dividend block that was scored above 0
ExtremePayoutWitness ==
    /\ Succeeded
    /\ result.Profil = <<"Standard">>
    /\ info.payoutRatio = Num(160000)
    /\ score_dividend_standard(info) = 3
    /\ FinalBlocks.Dividend = 0
    /\ FinalBlocks.Safety = score_safety_standard(info) - 1

\* C6: in either profile a yield_pct above 20 sets special_dividend and leaves
\* the final Dividend block at most 2; dividendYield 25 is yield_pct 25.
SpecialDividendCap ==
    Succeeded =>
        /\ info.dividendYield = Num(2500000) => raw.yield_pct = Num(2500)
        /\ (raw.yield_pct # None /\ Val(raw.yield_pct) > 2000) =>
               /\ result.Flags[1].special_dividend
               /\ FinalBlocks.Dividend <= 2

\* Scenario C with the Dividend block scored at its maximum
SpecialDividendWitness ==
    /\ Succeeded
    /\ info.dividendYield = Num(2500000)
    /\ ScoreOf(info, profile).Dividend = 5
    /\ FinalBlocks.Dividend <= 2

NoneResult(r) ==
    /\ r.Profil = None /\ r.Score = None /\ r.Flags = None /\ r.Details = None

\* C7: after a fetch, a quoteType other than EQUITY or ETF in any letter case
\* (an absent one read as "") ends the analysis with the 'Invalid quoteType'
\* Error result, Profil, Score, Flags and Details None, and no profile, block,
\* raw metric or flag computed; EQUITY or ETF never gets that Error result
\* and, when nothing raises, is classified and scored.
QuoteTypeGate ==
    (pc # "start" /\ info # None /\ info.quoteType # Null) =>
        LET quote_type == IF info.quoteType = None THEN ""
                          ELSE Text(info.quoteType)
        IN  IF quote_type \in {"EQUITY", "equity", "ETF", "Etf"}
            THEN /\ ~(pc = "done"
                        /\ result.Error = <<"Invalid quoteType: " \o quote_type>>)
                 /\ (/\ pc = "done"
                     /\ info.sector # Null /\ info.industry # Null
                     /\ ~IsStr(info.returnOnAssets)
                     /\ ~IsStr(info.returnOnEquity)) =>
                        /\ result.Error = None
                        /\ result.Profil \in {<<"Standard">>, <<"Financial">>}
                        /\ result.Score # None
            ELSE /\ pc = "done"
                 /\ result.Ticker = symbol
                 /\ result.Error = <<"Invalid quoteType: " \o quote_type>>
                 /\ NoneResult(result)
                 /\ profile = None /\ blocks = None /\ raw = None
                 /\ flags = None /\ score_normalized = None

\* Scenario D
QuoteTypeWitness ==
    /\ pc = "done"
    /\ info # None
    /\ info.quoteType = Str("MUTUALFUND")
    /\ result.Error = <<"Invalid quoteType: MUTUALFUND">>

\* the name analyze_stock has read when a failure comes after the fetch
NameRead(i, s) ==
    IF IsStr(i.shortName) /\ Text(i.shortName) # "" THEN Text(i.shortName)
    ELSE IF IsStr(i.longName) /\ Text(i.longName) # "" THEN Text(i.longName)
    ELSE s

\* the provider answer makes the fetch or the computation raise
AnswerRaises(a) ==
    \/ ~a.ok
    \/ a.info.quoteType = Null
    \/ IsStr(a.info.returnOnAssets)
    \/ IsStr(a.info.returnOnEquity)

\* C8: analyze_portfolio appends one result per identifier, in input order,
\* the i-th carrying the i-th identifier; an answer that makes the fetch or
\* the computation raise gives an Error result (Name the identifier when the
\* fetch raised, else the name read; Profil, Score, Flags, Details None); the
\* loop goes on after it and returns exactly n results.
PortfolioResults ==
    /\ Len(results) <= Len(symbols)
    /\ Len(answers) = Len(results)
    /\ pc = "returned" => Len(results) = Len(symbols)
    /\ (pc = "loop" /\ Len(results) < Len(symbols)) => ENABLED AnalyzeNext
    /\ \A i \in 1..Len(results) :
           /\ results[i].Ticker = symbols[i]
           /\ AnswerRaises(answers[i]) =>
                  /\ results[i].Error # None
                  /\ NoneResult(results[i])
                  /\ results[i].Name =
                         IF ~answers[i].ok THEN symbols[i]
                         ELSE NameRead(answers[i].info, symbols[i])

\* a failed fetch, a failed computation that had read the name, and a later
\* identifier analyzed with success
PortfolioWitness ==
    /\ pc = "returned"
    /\ Len(results) = 3
    /\ ~answers[1].ok /\ results[1].Error # None
    /\ answers[2].ok /\ IsStr(answers[2].info.returnOnAssets)
    /\ results[2].Name = "TotalEnergies"
    /\ results[3].Error = None

RequiredFinancialAbsent ==
    /\ info.returnOnEquity = None /\ info.priceToBook = None
    /\ info.forwardPE = None /\ info.trailingPE = None /\ info.beta = None
    /\ info.overallRisk = None /\ info.dividendYield = None
    /\ info.payoutRatio = None

ScenarioEOutcome ==
    /\ result.Flags[1].missing_data
    /\ result.Flags[1].missing_fields =
           <<"roe", "pb", "pe_fwd", "pe_ttm", "beta", "overallRisk",
             "yield_pct", "payout_pct">>
    /\ ~result.Flags[1].payout_unsustainable
    /\ ~result.Flags[1].special_dividend
    /\ ~result.Flags[1].extreme_peg
    /\ ~result.Flags[1].high_yield_alert
    /\ FinalBlocks = [Quality |-> 2, Safety |-> 2, ValueGrowth |-> 2,
                      Dividend |-> 1]
    /\ ScoreOf(info, profile) = FinalBlocks

RecommendationBands ==
    pc = "recommended" =>
        LET effective == IF flags.special_dividend /\ score_normalized >= 12
                         THEN score_normalized - 1 ELSE score_normalized
        IN  result.action =
                CASE effective \in 16..20 -> "ACHETER"
                  [] effective \in 14..15 -> "RENFORCER"
                  [] effective \in 12..13 -> "CONSERVER"
                  [] effective \in 9..11 -> "ALLEGER"
                  [] effective \in 0..8 -> "VENDRE"
                  [] OTHER -> "INDEFINI"

\* a special dividend moves a score of 16 down a band
RecommendationWitness ==
    /\ pc = "recommended"
    /\ flags.special_dividend
    /\ score_normalized = 16
    /\ result.action = "RENFORCER"

\* C11: for every score in 0..20 and every flag combination the warnings of
\* get_recommendation are, in this order, the sustainability warning iff
\* payout_unsustainable and the original score >= 14, the yield-durability
\* warning iff high_yield_alert and the returned action is ACHETER or
\* RENFORCER, the special-dividend warning iff special_dividend and the
\* original score >= 12; the warnings key is absent when none applies.
WarningsInOrder ==
    (pc = "recommended" /\ score_normalized \in 0..20) =>
        LET sustain == flags.payout_unsustainable /\ score_normalized >= 14
            durable == flags.high_yield_alert
                         /\ result.action \in {"ACHETER", "RENFORCER"}
            special == flags.special_dividend /\ score_normalized >= 12
            expected ==
                CASE sustain /\ durable /\ special ->
                         <<WARN_PAYOUT, WARN_YIELD, WARN_SPECIAL>>
                  [] sustain /\ durable /\ ~special -> <<WARN_PAYOUT, WARN_YIELD>>
                  [] sustain /\ ~durable /\ special -> <<WARN_PAYOUT, WARN_SPECIAL>>
                  [] ~sustain /\ durable /\ special -> <<WARN_YIELD, WARN_SPECIAL>>
                  [] sustain /\ ~durable /\ ~special -> <<WARN_PAYOUT>>
                  [] ~sustain /\ durable /\ ~special -> <<WARN_YIELD>>
                  [] ~sustain /\ ~durable /\ special -> <<WARN_SPECIAL>>
                  [] OTHER -> <<>>
        IN  IF expected = <<>>
            THEN result.warnings = None
            ELSE result.warnings = <<expected>>

\* a score of 14 with a special dividend is banded at 13 (CONSERVER) and
\* still carries the sustainability warning, which tests the original 14
WarningsWitness ==
    /\ pc = "recommended"
    /\ score_normalized = 14
    /\ flags.special_dividend /\ flags.payout_unsustainable
    /\ flags.high_yield_alert
    /\ result.action = "CONSERVER"
    /\ result.warnings = << <<WARN_PAYOUT, WARN_SPECIAL>> >>

\* C12: normalize_yield_fraction returns None for None, y/100 for every
\* y > 1.0 and y itself for every y <= 1.0, exactly 1.0 included;
\* normalize_payout_ratio returns None for None and for every p < 0 and p
\* itself for every p >= 0, so that 2.2059 is kept and shows as 220.59 %.
NormalizeContract ==
    pc = "normalized" =>
        LET y == info.dividendYield
            p == info.payoutRatio
        IN  /\ y = None => result.yield = None
            /\ (y # None /\ Val(y) > ONE) =>
                   /\ result.yield # None
                   /\ 100 * Val(result.yield) = Val(y)
            /\ (y # None /\ Val(y) <= ONE) => result.yield = y
            /\ (p = None \/ (p # None /\ Val(p) < 0)) => result.payout = None
            /\ (p # None /\ Val(p) >= 0) => result.payout = p
            /\ p = Num(220590) => result.payout_pct = Num(22059)

\* a yield of exactly 1.0 is kept while the ratio 2.2059 passes through
NormalizeWitness ==
    /\ pc = "normalized"
    /\ info.dividendYield = Num(ONE)
    /\ result.yield = Num(ONE)
    /\ info.payoutRatio = Num(220590)
    /\ result.payout = Num(220590)
    /\ result.payout_pct = Num(22059)

\* the three fields are present
PegyFieldsPresent ==
    /\ info.forwardPE # None
    /\ info.epsCurrentYear # None
    /\ info.epsForward # None

\* result is forwardPE / (((epsForward - epsCurrentYear) / epsCurrentYear) * 100)
\* for epsCurrentYear > 0 and epsForward > epsCurrentYear
PegyIsFormula ==
    /\ result # None
    /\ Val(result).d > 0
    /\ Val(result).n * 1000
           * (Val(info.epsForward) - Val(info.epsCurrentYear))
         = Val(result).d * Val(info.forwardPE) * Val(info.epsCurrentYear)

\* C13: compute_pegy_standard returns forwardPE / (growth rate * 100) whenever
\* the three fields are present, epsCurrentYear > 0 and the growth rate > 0,
\* and returns absent exactly when one of the three fields is absent,
\* epsCurrentYear <= 0, or the growth rate <= 0.
PegyOriginal ==
    pc = "computed" =>
        IF /\ PegyFieldsPresent
           /\ Val(info.epsCurrentYear) > 0
           /\ Val(info.epsForward) > Val(info.epsCurrentYear)
        THEN PegyIsFormula
        ELSE result = None

\* C13 as it holds: the value is returned when moreover forwardPE is not
\* zero, and a forwardPE of zero gives absent like an absent field.
PegyAmended ==
    pc = "computed" =>
        IF /\ PegyFieldsPresent
           /\ Val(info.forwardPE) # 0
           /\ Val(info.epsCurrentYear) > 0
           /\ Val(info.epsForward) > Val(info.epsCurrentYear)
        THEN PegyIsFormula
        ELSE result = None

\* a forward P/E of zero with growing positive earnings gives no PEGY
PegyWitness ==
    /\ pc = "computed"
    /\ info.forwardPE = Num(0)
    /\ info.epsCurrentYear = Num(20)
    /\ info.epsForward = Num(25)
    /\ result = None

\* C14: after all block penalties and the compounder boost the sum of the
\* four blocks is at most the ceiling normalize_score divides by: 17 in the
\* Standard profile, 20 in the Financial profile.
RawSumWithinCeiling ==
    (pc = "boosted" \/ Succeeded) =>
        SumBlocks(blocks) <= (IF profile = "Standard" THEN 17 ELSE 20)

\* C15: special_dividend is true iff yield_pct > 20, or
\* trailingAnnualDividendRate > 1.25 * dividendRate with both present and
\* non-zero, or the normalized trailingAnnualDividendYield > 1.25 * the
\* normalized dividendYield with both present and non-zero, or
\* high_yield_alert is true while payout_pct is absent; a pass that does not
\* fire never resets it, and the result carries the same value.
SpecialDividendCumulative ==
    HasBlocks =>
        LET byYield == raw.yield_pct # None /\ Val(raw.yield_pct) > 2000
            rate == info.dividendRate
            trailingRate == info.trailingAnnualDividendRate
            byRate == /\ rate # None /\ trailingRate # None
                      /\ Val(rate) # 0 /\ Val(trailingRate) # 0
                      /\ 4 * Val(trailingRate) > 5 * Val(rate)
            y == info.dividendYield
            t == info.trailingAnnualDividendYield
            ny == IF y # None /\ Val(y) > ONE THEN Val(y) \div 100 ELSE Val(y)
            nt == IF t # None /\ Val(t) > ONE THEN Val(t) \div 100 ELSE Val(t)
            byTrailingYield == /\ y # None /\ t # None
                               /\ ny # 0 /\ nt # 0
                               /\ 4 * nt > 5 * ny
            byAlert == flags.high_yield_alert /\ raw.payout_pct = None
        IN  /\ flags.special_dividend
                  <=> (byYield \/ byRate \/ byTrailingYield \/ byAlert)
            /\ Succeeded =>
                   result.Flags[1].special_dividend = flags.special_dividend

\* the flag set by the yield pass survives three later passes that do not
\* fire: payout_pct is present and no trailing figure is given
SpecialDividendCumulativeWitness ==
    /\ Succeeded
    /\ raw.yield_pct = Num(2500)
    /\ raw.payout_pct # None
    /\ info.dividendRate = None
    /\ info.trailingAnnualDividendYield = None
    /\ result.Flags[1].high_yield_alert
    /\ result.Flags[1].special_dividend

\* the extreme-payout gate, the only later rule that writes Dividend, fires
PayoutGateFires ==
    /\ profile = "Standard"
    /\ raw.payout_pct # None
    /\ Val(raw.payout_pct) >= 10000

\* C16: the special-dividend cap is applied strictly before the high-yield
\* subtraction: with special_dividend and high_yield_alert both set, Dividend
\* is min(d, 2) after the first rule and max(0, min(d, 2) - 1) after the
\* second, for the scored value d, and when no later gate fires that is the
\* Dividend block apply_all_penalties returns and the result carries.
CapBeforeSubtraction ==
    (HasBlocks /\ flags.special_dividend /\ flags.high_yield_alert) =>
        LET d == ScoreOf(info, profile).Dividend
            after == Max(0, Min(d, 2) - 1)
        IN  /\ pc = "pen1" => blocks.Dividend = Min(d, 2)
            /\ pc = "pen2" => blocks.Dividend = after
            /\ (pc \in {"pen4", "boosted", "done"} /\ ~PayoutGateFires) =>
                   /\ blocks.Dividend = after
                   /\ apply_all_penalties(profile, ScoreOf(info, profile),
                                          flags, raw).Dividend = after
            /\ (Succeeded /\ ~PayoutGateFires) =>
                   FinalBlocks.Dividend = after

\* a Dividend block scored 5 ends at 1, where subtracting first would give 2
CapBeforeSubtractionWitness ==
    /\ Succeeded
    /\ flags.special_dividend /\ flags.high_yield_alert
    /\ ~PayoutGateFires
    /\ ScoreOf(info, profile).Dividend = 5
    /\ FinalBlocks.Dividend = 1
    /\ Min(Max(0, ScoreOf(info, profile).Dividend - 1), 2) = 2

\* the elements of a sequence
Range(seq) == {seq[j] : j \in 1..Len(seq)}

\* pct (in 0.01 %) is the fraction f (in 0.00001) times 100, rounded to two
\* decimals
IsPercentOf(pct, f) == pct # None /\ 2 * Abs(10 * Val(pct) - Val(f)) <= 10

\* C17: in both raw-metrics builders yield_pct and payout_pct are the
\* normalized fraction times 100 rounded to 2 decimals when that fraction is
\* non-zero, and absent when it is absent or exactly zero; a dividendYield or
\* payoutRatio of exactly 0 gives the raw metrics and the flags, missing_fields
\* included, of an absent value, while the dividend scorer reads the zero as a
\* value: a zero payoutRatio earns the 2 points of a ratio within the limit
\* where an absent one earns 1, and a zero yield earns the 0 points of a yield
\* under the lowest threshold.
RawPercentages ==
    pc = "flagged" =>
        LET y == info.dividendYield
            p == info.payoutRatio
            fy == IF y # None /\ Val(y) > ONE THEN Num(Val(y) \div 100) ELSE y
            fp == IF p # None /\ Val(p) < 0 THEN None ELSE p
            noYield == [info EXCEPT !.dividendYield = None]
            noPayout == [info EXCEPT !.payoutRatio = None]
        IN  /\ IF fy = None \/ fy = Num(0)
               THEN raw.yield_pct = None
               ELSE IsPercentOf(raw.yield_pct, fy)
            /\ IF fp = None \/ fp = Num(0)
               THEN raw.payout_pct = None
               ELSE IsPercentOf(raw.payout_pct, fp)
            /\ "yield_pct" \in Range(flags.missing_fields)
                   <=> (fy = None \/ fy = Num(0))
            /\ "payout_pct" \in Range(flags.missing_fields)
                   <=> (fp = None \/ fp = Num(0))
            /\ y = Num(0) =>
                   /\ raw = RawOf(noYield, profile)
                   /\ flags = compute_flags(noYield, profile, raw)
                   /\ blocks.Dividend = ScoreOf(noYield, profile).Dividend
            /\ p = Num(0) =>
                   /\ raw = RawOf(noPayout, profile)
                   /\ flags = compute_flags(noPayout, profile, raw)
                   /\ blocks.Dividend = ScoreOf(noPayout, profile).Dividend + 1

\* a zero payout ratio next to a yield that rounds: payout_pct is absent and
\* listed as missing, yield_pct is 4.57, and the zero ratio scored 2 points
RawPercentagesWitness ==
    /\ pc = "flagged"
    /\ info.payoutRatio = Num(0)
    /\ info.dividendYield = Num(4567)
    /\ raw.payout_pct = None
    /\ raw.yield_pct = Num(457)
    /\ "payout_pct" \in Range(flags.missing_fields)
    /\ blocks.Dividend = 4

=============================================================================
